---- MODULE Spec2Model ----
(***************************************************************************)
(* Model of extract_xg_model.py: main() reads the pickled two-stage        *)
(* pipeline xg_model.pkl, prints four parameters as `let` statements on    *)
(* stdout and, when --json is among the arguments, dumps the same mapping  *)
(* to xg_model_params.json next to the pickle.                             *)
(*                                                                         *)
(* Floats are decimals with one fractional digit, held as an integer count *)
(* of tenths (-14 is -1.4).  Text is a sequence of tokens: the literal     *)
(* pieces of an f-string are one token each, a rendered number is one      *)
(* token per character.  A stream is the sequence of the payloads of the   *)
(* print calls that wrote to it.                                           *)
(***************************************************************************)
EXTENDS Integers, Sequences, FiniteSets, TLC

VARIABLES fs, argv, pc, stdout, stderr, exitStatus, handles, opened,
          model, scaler, lr, params, exc, run,
          prevStdout, prevStderr, prevExit, prevJson, pkl0, json0

vars == <<fs, argv, pc, stdout, stderr, exitStatus, handles, opened,
          model, scaler, lr, params, exc, run,
          prevStdout, prevStderr, prevExit, prevJson, pkl0, json0>>

(* ------------------------------ bounds --------------------------------- *)
MaxFeatures == 2
MaxArgs == 2
MaxRuns == 2

(* ------------------------------ paths ---------------------------------- *)
ScriptDir == <<"scripts">>
ScriptName == "extract_xg_model.py"
PKL_NAME == "xg_model.pkl"
JSON_NAME == "xg_model_params.json"

PKL_PATH == ScriptDir \o <<PKL_NAME>>

Parent(p) == SubSeq(p, 1, Len(p) - 1)
Name(p) == p[Len(p)]

with_name_same(p, n) == p
with_name(p, n) == Parent(p) \o <<n>>

JsonPath == with_name(PKL_PATH, JSON_NAME)
AllPaths == {PKL_PATH, JsonPath}

(* ------------------------------ values --------------------------------- *)
RECURSIVE SeqsOf(_, _)
SeqsOf(S, n) ==
    IF n = 0 THEN {<<>>}
    ELSE {Append(s, x) : s \in SeqsOf(S, n - 1), x \in S}

SeqsUpTo(S, n) == UNION {SeqsOf(S, k) : k \in 0..n}

\* one trained feature: its mean, its scale and its coefficient, in tenths
Features ==
    { [mean |-> 1, scale |-> 10, coef |-> 5],
      [mean |-> 20, scale |-> 112, coef |-> -3],
      [mean |-> -7, scale |-> 5, coef |-> 120] }
InterceptVals == {-14, 0}

Column(fv, name) == [i \in 1..Len(fv) |-> fv[i][name]]

Scaler(m, s) == [mean_ |-> m, scale_ |-> s]
Classifier(c, b) == [coef_ |-> <<c>>, intercept_ |-> <<b>>]
Pickled(stages) == [loadable |-> TRUE, stages |-> stages]
NoObj == [loadable |-> FALSE, stages |-> <<>>]
NoStage == [none |-> TRUE]
NoParams == [none |-> TRUE]

GoodPipelines ==
    UNION {{Pickled(<<Scaler(Column(fv, "mean"), Column(fv, "scale")),
                      Classifier(Column(fv, "coef"), b)>>) :
               fv \in SeqsOf(Features, k), b \in InterceptVals} :
           k \in 0..MaxFeatures}

BaseScaler == Scaler(<<1>>, <<10>>)
BaseClassifier == Classifier(<<5>>, -14)

BadPipelines ==
    { NoObj,
      Pickled(<<>>),
      Pickled(<<BaseScaler>>),
      Pickled(<<[scale_ |-> <<10>>], BaseClassifier>>),
      Pickled(<<[mean_ |-> <<1>>], BaseClassifier>>),
      Pickled(<<BaseScaler, [intercept_ |-> <<-14>>]>>),
      Pickled(<<BaseScaler, [coef_ |-> <<>>, intercept_ |-> <<-14>>]>>),
      Pickled(<<BaseScaler, [coef_ |-> <<<<5>>>>]>>),
      Pickled(<<BaseScaler, [coef_ |-> <<<<5>>>>, intercept_ |-> <<>>]>>) }

OddPipelines ==
    { Pickled(<<Scaler(<<1, 20>>, <<10>>), Classifier(<<5>>, 0)>>),
      Pickled(<<BaseScaler,
                [coef_ |-> <<<<5>>, <<-3>>>>, intercept_ |-> <<-14, 0>>]>>) }

Pipelines == GoodPipelines \cup BadPipelines \cup OddPipelines

AbsentFile == [exists |-> FALSE, obj |-> NoObj, text |-> <<>>]
PickleFile(o) == [exists |-> TRUE, obj |-> o, text |-> <<>>]
TextFile(t) == [exists |-> TRUE, obj |-> NoObj, text |-> t]
StaleJson == TextFile(<<"{", "}">>)

ArgTokens == {"--json", "-v"}
Argvs == {<<ScriptName>> \o a : a \in SeqsUpTo(ArgTokens, MaxArgs)}


(* --------------------------- text rendering ---------------------------- *)
DigitChars == <<"0", "1", "2", "3", "4", "5", "6", "7", "8", "9">>
Digit(d) == DigitChars[d + 1]
Abs(x) == IF x < 0 THEN -x ELSE x

RECURSIVE NatRepr(_)
NatRepr(n) ==
    IF n < 10 THEN <<Digit(n)>>
    ELSE NatRepr(n \div 10) \o <<Digit(n % 10)>>

\* repr of a Python float: sign, integer part, point, fraction
FloatRepr(x) ==
    (IF x < 0 THEN <<"-">> ELSE <<>>)
        \o NatRepr(Abs(x) \div 10) \o <<".">> \o <<Digit(Abs(x) % 10)>>

RECURSIVE Join(_, _)
Join(parts, sep) ==
    IF Len(parts) = 0 THEN <<>>
    ELSE IF Len(parts) = 1 THEN parts[1]
    ELSE parts[1] \o sep \o Join(Tail(parts), sep)

\* str of a Python list of floats
ListRepr(xs) ==
    <<"[">> \o Join([i \in 1..Len(xs) |-> FloatRepr(xs[i])], <<", ">>) \o <<"]">>

\* str of a pathlib.Path
PathStr(p) == Join([i \in 1..Len(p) |-> <<p[i]>>], <<"/">>)

\* the params dict: entries in insertion order
Entry(k, isList, v) == [key |-> k, isList |-> isList, val |-> v]
Lookup(d, k) == (CHOOSE i \in 1..Len(d) : d[i].key = k)
ValueRepr(e) == IF e.isList THEN ListRepr(e.val) ELSE FloatRepr(e.val[1])
Param(d, k) == ValueRepr(d[Lookup(d, k)])

Banner == <<"// ", "Paste these into src/utils/xgModel.ts">>
LetLine(name, pad, value) == <<"let ", name, pad>> \o value \o <<";">>

ErrorMsg ==
    <<"Error: ">> \o PathStr(PKL_PATH)
        \o <<" not found. Train the model first (see xGandShotmap.ipynb).">>
ConfirmMsg(path) == <<"\n", "Also wrote -> ">> \o PathStr(path)
Traceback(e) == <<"Traceback (most recent call last):", e>>

\* json.dumps(obj, indent=2) of a list of floats at nesting level 1
JsonList(xs) ==
    IF Len(xs) = 0 THEN <<"[", "]">>
    ELSE <<"[", "\n">>
           \o Join([i \in 1..Len(xs) |-> <<"    ">> \o FloatRepr(xs[i])],
                   <<",", "\n">>)
           \o <<"\n", "  ", "]">>

JsonValue(e) == IF e.isList THEN JsonList(e.val) ELSE FloatRepr(e.val[1])
JsonMember(e) == <<"  ", "\"", e.key, "\"", ": ">> \o JsonValue(e)

\* json.dumps(d, indent=2) of the params dict
JsonDumps(d) ==
    IF Len(d) = 0 THEN <<"{", "}">>
    ELSE <<"{", "\n">>
           \o Join([i \in 1..Len(d) |-> JsonMember(d[i])], <<",", "\n">>)
           \o <<"\n", "}">>

\* ndarray.tolist()
tolist(a) == [i \in 1..Len(a) |-> a[i]]

HasJsonFlag_first(a) == Len(a) >= 2 /\ a[2] = "--json"
\* "--json" in sys.argv
HasJsonFlag(a) == \E i \in 1..Len(a) : a[i] = "--json"

(* ------------------------------ Init ----------------------------------- *)
Init ==
    /\ \E p \in {AbsentFile} \cup {PickleFile(o) : o \in Pipelines},
          j \in {AbsentFile, StaleJson} :
          /\ fs = [q \in AllPaths |-> IF q = PKL_PATH THEN p ELSE j]
          /\ pkl0 = p
          /\ json0 = j
    /\ argv \in Argvs
    /\ pc = "check"
    /\ stdout = <<>>
    /\ stderr = <<>>
    /\ exitStatus = -1
    /\ handles = {}
    /\ opened = <<>>
    /\ model = <<>>
    /\ scaler = NoStage
    /\ lr = NoStage
    /\ params = NoParams
    /\ exc = "none"
    /\ run = 1
    /\ prevStdout = <<>>
    /\ prevStderr = <<>>
    /\ prevExit = -1
    /\ prevJson = AbsentFile


(* ------------------- reading the rendered text back -------------------- *)
IsDigit(c) == \E d \in 0..9 : DigitChars[d + 1] = c
DigitVal(c) == CHOOSE d \in 0..9 : DigitChars[d + 1] = c

RECURSIVE NatValue(_)
NatValue(cs) ==
    IF Len(cs) = 0 THEN 0
    ELSE 10 * NatValue(SubSeq(cs, 1, Len(cs) - 1)) + DigitVal(cs[Len(cs)])

Unsigned(cs) == IF Len(cs) > 0 /\ cs[1] = "-" THEN Tail(cs) ELSE cs

IsFloatText(cs) ==
    LET b == Unsigned(cs)
    IN  /\ Len(b) >= 3
        /\ b[Len(b) - 1] = "."
        /\ \A i \in 1..Len(b) : i # Len(b) - 1 => IsDigit(b[i])

FloatValue(cs) ==
    IF ~IsFloatText(cs) THEN -99999   \* text that is no float reads as no value of the model
    ELSE LET b == Unsigned(cs)
             v == 10 * NatValue(SubSeq(b, 1, Len(b) - 2)) + DigitVal(b[Len(b)])
         IN  IF cs[1] = "-" THEN -v ELSE v

FirstIdx(ts, from, S) ==
    IF \E j \in from..Len(ts) : ts[j] \in S
    THEN CHOOSE j \in from..Len(ts) :
            ts[j] \in S /\ \A m \in from..(j - 1) : ts[m] \notin S
    ELSE 0

RECURSIVE Split(_, _)
Split(ts, sep) ==
    IF Len(ts) = 0 THEN <<>>
    ELSE LET i == FirstIdx(ts, 1, {sep})
         IN  IF i = 0 THEN <<ts>>
             ELSE <<SubSeq(ts, 1, i - 1)>> \o Split(SubSeq(ts, i + 1, Len(ts)), sep)

FloatValues(parts) == [i \in 1..Len(parts) |-> FloatValue(parts[i])]

IsPyList(ts) == Len(ts) >= 2 /\ ts[1] = "[" /\ ts[Len(ts)] = "]"
PyListValue(ts) == FloatValues(Split(SubSeq(ts, 2, Len(ts) - 1), ", "))

IsWhitespace(t) == t \in {"\n", "  ", "    "}
Strip(ts) == SelectSeq(ts, LAMBDA t : ~IsWhitespace(t))

RECURSIVE ParseMembers(_, _)
ParseMembers(ts, i) ==
    IF i + 4 > Len(ts) \/ ts[i] # "\"" THEN <<>>
    ELSE LET v == i + 4
             isList == ts[v] = "["
             close == IF isList THEN FirstIdx(ts, v, {"]"})
                      ELSE FirstIdx(ts, v, {",", "}"}) - 1
         IN  IF close <= 0 \/ close >= Len(ts) THEN <<>>
             ELSE LET vals == IF isList
                              THEN FloatValues(Split(SubSeq(ts, v + 1, close - 1), ","))
                              ELSE <<FloatValue(SubSeq(ts, v, close))>>
                  IN  <<Entry(ts[i + 1], isList, vals)>>
                         \o (IF ts[close + 1] = ","
                             THEN ParseMembers(ts, close + 2)
                             ELSE <<>>)

IsJsonObject(ts) ==
    LET s == Strip(ts) IN Len(s) >= 2 /\ s[1] = "{" /\ s[Len(s)] = "}"
     /\ Cardinality({i \in 1..Len(s) : s[i] = "{"}) = 1

JsonMembers(ts) == IF IsJsonObject(ts) THEN ParseMembers(Strip(ts), 2) ELSE <<>>

Contains(ts, sub) ==
    \E i \in 1..(Len(ts) - Len(sub) + 1) : SubSeq(ts, i, i + Len(sub) - 1) = sub

(* --------------------- vocabulary of the properties -------------------- *)
InputExists == pkl0.exists
Art == pkl0.obj

Malformed(o) ==
    \/ ~o.loadable
    \/ Len(o.stages) < 2
    \/ "mean_" \notin DOMAIN o.stages[1]
    \/ "scale_" \notin DOMAIN o.stages[1]
    \/ "coef_" \notin DOMAIN o.stages[2]
    \/ "intercept_" \notin DOMAIN o.stages[2]
    \/ Len(o.stages[2].coef_) = 0
    \/ Len(o.stages[2].intercept_) = 0

WellFormed(o) ==
    /\ ~Malformed(o)
    /\ Len(o.stages) = 2
    /\ Len(o.stages[2].coef_) = 1
    /\ Len(o.stages[2].intercept_) = 1
    /\ Len(o.stages[1].scale_) = Len(o.stages[1].mean_)
    /\ Len(o.stages[2].coef_[1]) = Len(o.stages[1].mean_)

NumFeatures(o) == Len(o.stages[1].mean_)

Exited == pc = "exited"
ExpectedJsonPath == ScriptDir \o <<JSON_NAME>>
ReadHandle == [path |-> PKL_PATH, mode |-> "rb"]
WriteOpens == {i \in 1..Len(opened) : opened[i].mode # "rb"}
PklOpens == {i \in 1..Len(opened) : opened[i].path = PKL_PATH}
WriteHandles == {h \in handles : h.mode # "rb"}

IsErrorMsg(m) == Len(m) >= 1 /\ m[1] = "Error: "
IsConfirmMsg(m) == Len(m) >= 2 /\ m[2] = "Also wrote -> "
IsTraceback(m) == Len(m) >= 1 /\ m[1] = "Traceback (most recent call last):"
IsMainOutput(m) == Len(m) >= 1 /\ m[1] \in {"// ", "let "}
Has(stream, P(_)) == \E i \in 1..Len(stream) : P(stream[i])

LetNames == <<"SCALER_MEAN", "SCALER_SCALE", "LR_COEF", "LR_INTERCEPT">>
LineValue(line) == SubSeq(line, 4, Len(line) - 1)
IsAssignPad(t) == t \in {" = ", "  = ", "      = "}

\* line i of stdout has the form the output contract gives it
LineForm(i, line) ==
    IF i = 1 THEN line = <<"// ", "Paste these into src/utils/xgModel.ts">>
    ELSE /\ Len(line) >= 5
         /\ line[1] = "let "
         /\ line[2] = LetNames[i - 1]
         /\ IsAssignPad(line[3])
         /\ line[Len(line)] = ";"
         /\ IF i <= 4 THEN IsPyList(LineValue(line))
            ELSE IsFloatText(LineValue(line))

(* ----------------------------- actions --------------------------------- *)
\* line 20: if not PKL_PATH.exists()
CheckExists ==
    /\ pc = "check"
    /\ pc' = IF fs[PKL_PATH].exists THEN "open_pkl" ELSE "report"
    /\ UNCHANGED <<fs, argv, stdout, stderr, exitStatus, handles, opened,
                   model, scaler, lr, params, exc, run,
                   prevStdout, prevStderr, prevExit, prevJson, pkl0, json0>>

ReportMissing_stdout ==
    /\ pc = "report"
    /\ stdout' = Append(stdout, ErrorMsg)
    /\ pc' = "sysexit"
    /\ UNCHANGED <<fs, argv, stderr, exitStatus, handles, opened,
                   model, scaler, lr, params, exc, run,
                   prevStdout, prevStderr, prevExit, prevJson, pkl0, json0>>

\* line 21: print(..., file=sys.stderr)
ReportMissing ==
    /\ pc = "report"
    /\ stderr' = Append(stderr, ErrorMsg)
    /\ pc' = "sysexit"
    /\ UNCHANGED <<fs, argv, stdout, exitStatus, handles, opened,
                   model, scaler, lr, params, exc, run,
                   prevStdout, prevStderr, prevExit, prevJson, pkl0, json0>>

SysExit_zero ==
    /\ pc = "sysexit"
    /\ exitStatus' = 0
    /\ pc' = "exited"
    /\ UNCHANGED <<fs, argv, stdout, stderr, handles, opened,
                   model, scaler, lr, params, exc, run,
                   prevStdout, prevStderr, prevExit, prevJson, pkl0, json0>>

\* line 22: sys.exit(1)
SysExit ==
    /\ pc = "sysexit"
    /\ exitStatus' = 1
    /\ pc' = "exited"
    /\ UNCHANGED <<fs, argv, stdout, stderr, handles, opened,
                   model, scaler, lr, params, exc, run,
                   prevStdout, prevStderr, prevExit, prevJson, pkl0, json0>>

\* line 24: with open(PKL_PATH, "rb") as f
OpenPkl ==
    /\ pc = "open_pkl"
    /\ handles' = handles \cup {[path |-> PKL_PATH, mode |-> "rb"]}
    /\ opened' = Append(opened, [path |-> PKL_PATH, mode |-> "rb"])
    /\ pc' = "load"
    /\ UNCHANGED <<fs, argv, stdout, stderr, exitStatus,
                   model, scaler, lr, params, exc, run,
                   prevStdout, prevStderr, prevExit, prevJson, pkl0, json0>>

\* line 25: model = pickle.load(f)
PickleLoad ==
    /\ pc = "load"
    /\ IF fs[PKL_PATH].obj.loadable
       THEN model' = fs[PKL_PATH].obj.stages /\ exc' = exc
       ELSE model' = model /\ exc' = "UnpicklingError"
    /\ pc' = "close_pkl"
    /\ UNCHANGED <<fs, argv, stdout, stderr, exitStatus, handles, opened,
                   scaler, lr, params, run,
                   prevStdout, prevStderr, prevExit, prevJson, pkl0, json0>>

ClosePkl_leak ==
    /\ pc = "close_pkl"
    /\ handles' = IF exc = "none"
                  THEN handles \ {[path |-> PKL_PATH, mode |-> "rb"]}
                  ELSE handles
    /\ pc' = IF exc = "none" THEN "scaler" ELSE "raise"
    /\ UNCHANGED <<fs, argv, stdout, stderr, exitStatus, opened,
                   model, scaler, lr, params, exc, run,
                   prevStdout, prevStderr, prevExit, prevJson, pkl0, json0>>

\* lines 24-25: leaving the with block closes f, exception or not
ClosePkl ==
    /\ pc = "close_pkl"
    /\ handles' = handles \ {[path |-> PKL_PATH, mode |-> "rb"]}
    /\ pc' = IF exc = "none" THEN "scaler" ELSE "raise"
    /\ UNCHANGED <<fs, argv, stdout, stderr, exitStatus, opened,
                   model, scaler, lr, params, exc, run,
                   prevStdout, prevStderr, prevExit, prevJson, pkl0, json0>>

\* line 28: scaler = model[0]
GetScaler ==
    /\ pc = "scaler"
    /\ IF Len(model) >= 1
       THEN scaler' = model[1] /\ exc' = exc /\ pc' = "lr"
       ELSE scaler' = scaler /\ exc' = "IndexError" /\ pc' = "raise"
    /\ UNCHANGED <<fs, argv, stdout, stderr, exitStatus, handles, opened,
                   model, lr, params, run,
                   prevStdout, prevStderr, prevExit, prevJson, pkl0, json0>>

\* line 29: lr = model[1]
GetLr ==
    /\ pc = "lr"
    /\ IF Len(model) >= 2
       THEN lr' = model[2] /\ exc' = exc /\ pc' = "params"
       ELSE lr' = lr /\ exc' = "IndexError" /\ pc' = "raise"
    /\ UNCHANGED <<fs, argv, stdout, stderr, exitStatus, handles, opened,
                   model, scaler, params, run,
                   prevStdout, prevStderr, prevExit, prevJson, pkl0, json0>>

\* the first lookup of lines 32-35 that raises, "none" if none does
ParamsError(sc, cl) ==
    IF "mean_" \notin DOMAIN sc THEN "AttributeError"
    ELSE IF "scale_" \notin DOMAIN sc THEN "AttributeError"
    ELSE IF "coef_" \notin DOMAIN cl THEN "AttributeError"
    ELSE IF Len(cl.coef_) < 1 THEN "IndexError"
    ELSE IF "intercept_" \notin DOMAIN cl THEN "AttributeError"
    ELSE IF Len(cl.intercept_) < 1 THEN "IndexError"
    ELSE "none"

ParamsOf_swapped(sc, cl) ==
    << Entry("scaler_mean", TRUE, tolist(sc.scale_)),
       Entry("scaler_scale", TRUE, tolist(sc.mean_)),
       Entry("lr_coef", TRUE, tolist(cl.coef_[1])),
       Entry("lr_intercept", FALSE, <<cl.intercept_[1]>>) >>

\* lines 31-36: the dict display
ParamsOf(sc, cl) ==
    << Entry("scaler_mean", TRUE, tolist(sc.mean_)),
       Entry("scaler_scale", TRUE, tolist(sc.scale_)),
       Entry("lr_coef", TRUE, tolist(cl.coef_[1])),
       Entry("lr_intercept", FALSE, <<cl.intercept_[1]>>) >>

BuildParams_late ==
    /\ pc = "params"
    /\ stdout' = Append(stdout, Banner)
    /\ IF ParamsError(scaler, lr) = "none"
       THEN params' = ParamsOf(scaler, lr) /\ exc' = exc /\ pc' = "print_mean"
       ELSE params' = params /\ exc' = ParamsError(scaler, lr) /\ pc' = "raise"
    /\ UNCHANGED <<fs, argv, stderr, exitStatus, handles, opened,
                   model, scaler, lr, run,
                   prevStdout, prevStderr, prevExit, prevJson, pkl0, json0>>

\* lines 31-36: params = {...}
BuildParams ==
    /\ pc = "params"
    /\ IF ParamsError(scaler, lr) = "none"
       THEN params' = ParamsOf(scaler, lr) /\ exc' = exc /\ pc' = "print_banner"
       ELSE params' = params /\ exc' = ParamsError(scaler, lr) /\ pc' = "raise"
    /\ UNCHANGED <<fs, argv, stdout, stderr, exitStatus, handles, opened,
                   model, scaler, lr, run,
                   prevStdout, prevStderr, prevExit, prevJson, pkl0, json0>>

\* a print(...) to stdout at position `at`, continuing at `next`
PrintOut(at, line, next) ==
    /\ pc = at
    /\ stdout' = Append(stdout, line)
    /\ pc' = next
    /\ UNCHANGED <<fs, argv, stderr, exitStatus, handles, opened,
                   model, scaler, lr, params, exc, run,
                   prevStdout, prevStderr, prevExit, prevJson, pkl0, json0>>

\* line 38
PrintBanner == PrintOut("print_banner", Banner, "print_mean")

\* line 39
PrintMean ==
    PrintOut("print_mean",
             LetLine("SCALER_MEAN", "  = ", Param(params, "scaler_mean")),
             "print_scale")

PrintScale_dup ==
    PrintOut("print_scale",
             LetLine("SCALER_MEAN", "  = ", Param(params, "scaler_mean")),
             "print_coef")

\* line 40
PrintScale ==
    PrintOut("print_scale",
             LetLine("SCALER_SCALE", " = ", Param(params, "scaler_scale")),
             "print_coef")

\* line 41
PrintCoef ==
    PrintOut("print_coef",
             LetLine("LR_COEF", "      = ", Param(params, "lr_coef")),
             "print_intercept")

\* line 42
PrintIntercept ==
    PrintOut("print_intercept",
             LetLine("LR_INTERCEPT", "  = ", Param(params, "lr_intercept")),
             "flag")

CheckJsonFlag_first ==
    /\ pc = "flag"
    /\ pc' = IF HasJsonFlag_first(argv) THEN "open_json" ELSE "return"
    /\ UNCHANGED <<fs, argv, stdout, stderr, exitStatus, handles, opened,
                   model, scaler, lr, params, exc, run,
                   prevStdout, prevStderr, prevExit, prevJson, pkl0, json0>>

\* line 44: if "--json" in sys.argv
CheckJsonFlag ==
    /\ pc = "flag"
    /\ pc' = IF HasJsonFlag(argv) THEN "open_json" ELSE "return"
    /\ UNCHANGED <<fs, argv, stdout, stderr, exitStatus, handles, opened,
                   model, scaler, lr, params, exc, run,
                   prevStdout, prevStderr, prevExit, prevJson, pkl0, json0>>

OpenJson_append ==
    /\ pc = "open_json"
    /\ fs' = [fs EXCEPT ![JsonPath] = TextFile(fs[JsonPath].text)]
    /\ handles' = handles \cup {[path |-> JsonPath, mode |-> "w"]}
    /\ opened' = Append(opened, [path |-> JsonPath, mode |-> "w"])
    /\ pc' = "dump"
    /\ UNCHANGED <<argv, stdout, stderr, exitStatus,
                   model, scaler, lr, params, exc, run,
                   prevStdout, prevStderr, prevExit, prevJson, pkl0, json0>>

\* lines 45-46: json_path = PKL_PATH.with_name(...); open(json_path, "w")
\* creates the file or truncates it
OpenJson ==
    /\ pc = "open_json"
    /\ fs' = [fs EXCEPT ![JsonPath] = TextFile(<<>>)]
    /\ handles' = handles \cup {[path |-> JsonPath, mode |-> "w"]}
    /\ opened' = Append(opened, [path |-> JsonPath, mode |-> "w"])
    /\ pc' = "dump"
    /\ UNCHANGED <<argv, stdout, stderr, exitStatus,
                   model, scaler, lr, params, exc, run,
                   prevStdout, prevStderr, prevExit, prevJson, pkl0, json0>>

\* line 47: json.dump(params, f, indent=2)
JsonDump ==
    /\ pc = "dump"
    /\ fs' = [fs EXCEPT ![JsonPath] =
                 TextFile(fs[JsonPath].text \o JsonDumps(params))]
    /\ pc' = "close_json"
    /\ UNCHANGED <<argv, stdout, stderr, exitStatus, handles, opened,
                   model, scaler, lr, params, exc, run,
                   prevStdout, prevStderr, prevExit, prevJson, pkl0, json0>>

\* lines 46-47: leaving the with block closes f
CloseJson ==
    /\ pc = "close_json"
    /\ handles' = handles \ {[path |-> JsonPath, mode |-> "w"]}
    /\ pc' = "confirm"
    /\ UNCHANGED <<fs, argv, stdout, stderr, exitStatus, opened,
                   model, scaler, lr, params, exc, run,
                   prevStdout, prevStderr, prevExit, prevJson, pkl0, json0>>

PrintConfirm_stdout ==
    /\ pc = "confirm"
    /\ stdout' = Append(stdout, ConfirmMsg(JsonPath))
    /\ pc' = "return"
    /\ UNCHANGED <<fs, argv, stderr, exitStatus, handles, opened,
                   model, scaler, lr, params, exc, run,
                   prevStdout, prevStderr, prevExit, prevJson, pkl0, json0>>

\* line 48: print(..., file=sys.stderr)
PrintConfirm ==
    /\ pc = "confirm"
    /\ stderr' = Append(stderr, ConfirmMsg(JsonPath))
    /\ pc' = "return"
    /\ UNCHANGED <<fs, argv, stdout, exitStatus, handles, opened,
                   model, scaler, lr, params, exc, run,
                   prevStdout, prevStderr, prevExit, prevJson, pkl0, json0>>

\* line 52: main() returns, the interpreter exits with status 0
Return ==
    /\ pc = "return"
    /\ exitStatus' = 0
    /\ pc' = "exited"
    /\ UNCHANGED <<fs, argv, stdout, stderr, handles, opened,
                   model, scaler, lr, params, exc, run,
                   prevStdout, prevStderr, prevExit, prevJson, pkl0, json0>>

\* lines 25-35: nothing catches the exception; the interpreter prints the
\* traceback on stderr and exits with status 1
Uncaught ==
    /\ pc = "raise"
    /\ stderr' = Append(stderr, Traceback(exc))
    /\ exitStatus' = 1
    /\ pc' = "exited"
    /\ UNCHANGED <<fs, argv, stdout, handles, opened,
                   model, scaler, lr, params, exc, run,
                   prevStdout, prevStderr, prevExit, prevJson, pkl0, json0>>

\* lines 51-52: the script is invoked again with the same arguments; the
\* files are as the previous run left them
Rerun ==
    /\ pc = "exited"
    /\ run < MaxRuns
    /\ run' = run + 1
    /\ prevStdout' = stdout
    /\ prevStderr' = stderr
    /\ prevExit' = exitStatus
    /\ prevJson' = fs[JsonPath]
    /\ pc' = "check"
    /\ stdout' = <<>>
    /\ stderr' = <<>>
    /\ exitStatus' = -1
    /\ handles' = {}
    /\ opened' = <<>>
    /\ model' = <<>>
    /\ scaler' = NoStage
    /\ lr' = NoStage
    /\ params' = NoParams
    /\ exc' = "none"
    /\ UNCHANGED <<fs, argv, pkl0, json0>>

Next ==
    \/ CheckExists
    \/ ReportMissing
    \/ SysExit
    \/ OpenPkl
    \/ PickleLoad
    \/ ClosePkl
    \/ GetScaler
    \/ GetLr
    \/ BuildParams
    \/ PrintBanner
    \/ PrintMean
    \/ PrintScale
    \/ PrintCoef
    \/ PrintIntercept
    \/ CheckJsonFlag
    \/ OpenJson
    \/ JsonDump
    \/ CloseJson
    \/ PrintConfirm
    \/ Return
    \/ Uncaught
    \/ Rerun

Spec == Init /\ [][Next]_vars

(* ============================ properties =============================== *)

\* C1: when the pipeline file is missing at the start of main(), the run
\* writes exactly one diagnostic, on stderr, that contains the attempted
\* path and the hint to train the model, exits with status 1, leaves stdout
\* empty, never opens the input and creates no JSON file, with or without
\* --json.
C1_MissingFile ==
    ~InputExists =>
        /\ stdout = <<>>
        /\ opened = <<>>
        /\ fs[ExpectedJsonPath] = json0
        /\ Len(stderr) <= 1
        /\ exitStatus \in {-1, 1}
        /\ Exited =>
             /\ exitStatus = 1
             /\ Len(stderr) = 1
             /\ IsErrorMsg(stderr[1])
             /\ Contains(stderr[1], <<"scripts", "/", "xg_model.pkl">>)
             /\ Contains(stderr[1],
                  <<" not found. Train the model first (see xGandShotmap.ipynb).">>)

C1_Witness ==
    ~InputExists /\ Exited /\ HasJsonFlag(argv) /\ Len(stderr) = 1

\* C2: for a well-formed pipeline, with or without --json, stdout receives
\* exactly five lines in a fixed order: the banner, then `let NAME = VALUE;`
\* for SCALER_MEAN, SCALER_SCALE, LR_COEF (array values) and LR_INTERCEPT
\* (a bare number); at every moment stdout is a prefix of that sequence.
C2_StdoutFiveLines ==
    (InputExists /\ WellFormed(Art)) =>
        /\ Len(stdout) <= 5
        /\ \A i \in 1..Len(stdout) : LineForm(i, stdout[i])
        /\ Exited => Len(stdout) = 5

C2_Witness ==
    /\ InputExists /\ WellFormed(Art) /\ NumFeatures(Art) = 2
    /\ Exited /\ Len(stdout) = 5 /\ ~HasJsonFlag(argv)

\* C3: for a well-formed pipeline the JSON file is written if and only if
\* the token --json is somewhere among the arguments; without it no file is
\* created and stderr gets no confirmation; with it the confirmation naming
\* the written path reaches stderr, and only after the JSON file is
\* completely written and closed.
C3_JsonGatedByFlag ==
    (InputExists /\ WellFormed(Art)) =>
        /\ Exited => (WriteOpens # {} <=> HasJsonFlag(argv))
        /\ ~HasJsonFlag(argv) =>
             /\ fs[ExpectedJsonPath] = json0
             /\ WriteOpens = {}
             /\ ~Has(stderr, IsConfirmMsg)
        /\ (Exited /\ HasJsonFlag(argv)) =>
             /\ Has(stderr, IsConfirmMsg)
             /\ \A i \in WriteOpens : opened[i].path = ExpectedJsonPath
        /\ \A i \in 1..Len(stderr) : IsConfirmMsg(stderr[i]) =>
             /\ Contains(stderr[i], PathStr(ExpectedJsonPath))
             /\ handles = {}
             /\ fs[ExpectedJsonPath].exists
             /\ Len(JsonMembers(fs[ExpectedJsonPath].text)) = 4

C3_Witness ==
    /\ InputExists /\ WellFormed(Art) /\ Exited
    /\ argv = <<ScriptName, "-v", "--json">>
    /\ Has(stderr, IsConfirmMsg)
    /\ json0 = AbsentFile /\ fs[ExpectedJsonPath].exists

\* C4: for a well-formed pipeline with k features the three printed arrays
\* have k elements each, in the artifact's order, the intercept is a single
\* number, and the JSON file written by the same invocation has exactly the
\* four fields scaler_mean, scaler_scale, lr_coef, lr_intercept whose values
\* equal both the artifact's values and the printed ones.
PrintedList(i) == PyListValue(LineValue(stdout[i]))
PrintedIntercept == FloatValue(LineValue(stdout[5]))
JsonComplete == WriteOpens # {} /\ WriteHandles = {}

C4_RoundTrip ==
    (InputExists /\ WellFormed(Art) /\ Len(stdout) = 5) =>
        LET k == NumFeatures(Art)
            sc == Art.stages[1]
            cl == Art.stages[2]
        IN  /\ \A i \in 2..4 : Len(PrintedList(i)) = k
            /\ PrintedList(2) = sc.mean_
            /\ PrintedList(3) = sc.scale_
            /\ PrintedList(4) = cl.coef_[1]
            /\ PrintedIntercept = cl.intercept_[1]
            /\ JsonComplete =>
                 LET j == JsonMembers(fs[ExpectedJsonPath].text)
                 IN  /\ Len(j) = 4
                     /\ j[1] = Entry("scaler_mean", TRUE, sc.mean_)
                     /\ j[2] = Entry("scaler_scale", TRUE, sc.scale_)
                     /\ j[3] = Entry("lr_coef", TRUE, cl.coef_[1])
                     /\ j[4] = Entry("lr_intercept", FALSE, <<cl.intercept_[1]>>)
                     /\ \A i \in 1..3 : j[i].val = PrintedList(i + 1)
                     /\ j[4].val = <<PrintedIntercept>>

C4_Witness ==
    /\ InputExists /\ WellFormed(Art) /\ NumFeatures(Art) = 2
    /\ Art.stages[1].mean_ # Art.stages[1].scale_
    /\ Art.stages[2].intercept_[1] < 0
    /\ Exited /\ Len(stdout) = 5 /\ JsonComplete

\* C5: a second invocation with the same arguments on the unchanged input
\* produces the same stdout, the same diagnostics and status, and leaves the
\* JSON file with the same content as after the first one; a JSON file left
\* by the first run is overwritten with identical content.
C5_Idempotent ==
    (run >= 2 /\ Exited) =>
        /\ stdout = prevStdout
        /\ stderr = prevStderr
        /\ exitStatus = prevExit
        /\ fs[ExpectedJsonPath] = prevJson

C5_Witness ==
    /\ run = 2 /\ Exited /\ exitStatus = 0 /\ HasJsonFlag(argv)
    /\ json0 = StaleJson /\ WriteOpens # {} /\ Len(stdout) = 5
    /\ fs[ExpectedJsonPath] # json0

\* C6: the exit status is 0 exactly when the whole success path completed
\* (five stdout lines and, with --json, the JSON file written and the
\* confirmation emitted); it is 1 when the input file is absent; a run that
\* stopped earlier never ends with status 0.
SuccessComplete ==
    /\ Len(stdout) = 5
    /\ exc = "none"
    /\ HasJsonFlag(argv) =>
         /\ JsonComplete
         /\ Len(JsonMembers(fs[ExpectedJsonPath].text)) = 4
         /\ Has(stderr, IsConfirmMsg)

C6_ExitStatus ==
    /\ exitStatus = 0 <=> (Exited /\ SuccessComplete)
    /\ (Exited /\ ~InputExists) => exitStatus = 1
    /\ Exited <=> exitStatus # -1

C6_Witness ==
    Exited /\ exitStatus = 0 /\ HasJsonFlag(argv) /\ Has(stderr, IsConfirmMsg)

\* C7: the input artifact is only read: it is opened at most once per run
\* and only for reading, its content never changes, and the only file
\* opened for writing is the JSON file, in the input's directory under a
\* different name.
C7_InputReadOnly ==
    /\ Cardinality(PklOpens) <= 1
    /\ \A i \in PklOpens : opened[i].mode = "rb"
    /\ fs[PKL_PATH] = pkl0
    /\ \A i \in WriteOpens :
         /\ opened[i].path # PKL_PATH
         /\ Parent(opened[i].path) = Parent(PKL_PATH)
         /\ Name(opened[i].path) = JSON_NAME
         /\ Name(opened[i].path) # Name(PKL_PATH)

C7_Witness ==
    /\ Exited /\ exitStatus = 0 /\ WriteOpens # {} /\ PklOpens # {}
    /\ fs[ExpectedJsonPath] # json0

\* C8 (as stated): in every run stderr receives only the missing-file error
\* or the JSON confirmation, never the banner or an assignment line; stdout
\* never receives the error or the confirmation; no run emits both the
\* error and the confirmation.
C8_Original ==
    /\ \A i \in 1..Len(stderr) :
         /\ IsErrorMsg(stderr[i]) \/ IsConfirmMsg(stderr[i])
         /\ ~IsMainOutput(stderr[i])
    /\ \A i \in 1..Len(stdout) :
         ~IsErrorMsg(stdout[i]) /\ ~IsConfirmMsg(stdout[i])
    /\ ~(Has(stderr, IsErrorMsg) /\ Has(stderr, IsConfirmMsg))

\* C8 (amended): in every run stderr receives only the missing-file error,
\* the JSON confirmation or, when an exception went uncaught, the
\* interpreter's traceback; it never receives the banner or an assignment
\* line; stdout receives only the banner and assignment lines; no run emits
\* both the error and the confirmation.
C8_StreamSeparation ==
    /\ \A i \in 1..Len(stderr) :
         /\ \/ IsErrorMsg(stderr[i])
            \/ IsConfirmMsg(stderr[i])
            \/ IsTraceback(stderr[i]) /\ exc # "none"
         /\ ~IsMainOutput(stderr[i])
    /\ \A i \in 1..Len(stdout) :
         /\ IsMainOutput(stdout[i])
         /\ ~IsErrorMsg(stdout[i])
         /\ ~IsConfirmMsg(stdout[i])
         /\ ~IsTraceback(stdout[i])
    /\ ~(Has(stderr, IsErrorMsg) /\ Has(stderr, IsConfirmMsg))

C8_Witness ==
    /\ Exited /\ Has(stderr, IsTraceback) /\ InputExists /\ HasJsonFlag(argv)
    /\ stdout = <<>>

\* C9: the read handle is acquired only after the existence check passed
\* and is released when deserialization ends, whether it succeeded or
\* raised, before anything is printed; the write handle is acquired only
\* after the five stdout lines and released once the dump is complete; the
\* two are never open together and none is open at exit.
C9_ScopedHandles ==
    /\ Cardinality(handles) <= 1
    /\ ~InputExists => PklOpens = {}
    /\ ReadHandle \in handles =>
         /\ InputExists
         /\ pc \in {"load", "close_pkl"}
         /\ stdout = <<>>
    /\ pc \in {"scaler", "raise"} => handles = {}
    /\ WriteHandles # {} =>
         /\ Len(stdout) = 5
         /\ pc \in {"dump", "close_json"}
    /\ pc = "confirm" =>
         /\ handles = {}
         /\ Len(JsonMembers(fs[ExpectedJsonPath].text)) = 4
    /\ Exited => handles = {}

C9_Witness ==
    /\ pc = "raise" /\ exc = "UnpicklingError" /\ Len(opened) = 1
    /\ handles = {}

\* C10: if the file exists but cannot be deserialized, or lacks element 0
\* or 1, or one of mean_, scale_, coef_[0], intercept_[0], the exception
\* goes uncaught and the process ends with a non-zero status, nothing at
\* all is printed on stdout and no JSON file is written, even with --json.
C10_MalformedAllOrNothing ==
    (InputExists /\ Malformed(Art)) =>
        /\ stdout = <<>>
        /\ WriteOpens = {}
        /\ fs[ExpectedJsonPath] = json0
        /\ exitStatus # 0
        /\ Exited =>
             /\ exitStatus > 0
             /\ exc # "none"
             /\ Has(stderr, IsTraceback)

C10_Witness ==
    /\ InputExists /\ Malformed(Art) /\ Art.loadable /\ Len(Art.stages) = 2
    /\ Exited /\ exc = "AttributeError" /\ HasJsonFlag(argv)

====
